---------------------------- MODULE Spec2Model ----------------------------
(***************************************************************************)
(* A model of danmaid/zabbix-rtx-sse: the RingBuffer (src/src/ringbuffer.ts),*)
(* the NdjsonTailer (src/src/tailer.ts) and the SseHub with its wiring       *)
(* (src/src/index.ts).                                                       *)
(*                                                                           *)
(* Optional JavaScript values (undefined / null) are modelled as sequences   *)
(* of length 0 or 1: None is <<>>, Some(x) is <<x>>.                         *)
(***************************************************************************)
EXTENDS Integers, Sequences, FiniteSets, TLC

VARIABLES
  \* ---- RingBuffer (ringbuffer.ts:4-8)
  cap, buf, head, count, nextId,
  \* the envelopes push() has returned, in call order, and the last query
  issued, lastQuery,
  \* ---- NdjsonTailer (tailer.ts:13-24)
  startAtEnd, fd, offset, inode, buffer, timer, stopped, looping, watcher,
  idleBackoffMs,
  \* position of start() and of loop(), and loop()'s locals
  startPc, loopPc, stats, ostats, toRead, readTotal, progressed,
  \* the file system: the inode the path names, and each inode's bytes
  pathIno, files,
  \* the 'data' events emitted so far, and bookkeeping for the properties
  emitted, stream, base, rotatedAt, truncatedAt,
  \* position of stop() and of the forced resync of poke(true), with the
  \* stat result of its openFile(); the file operations that have failed
  stopPc, resyncPc, rstats, faults,
  \* the handle a read is in flight on, and whether close() was called on
  \* the handle this.fd holds
  reading, fdClosing,
  \* bookkeeping: the 'data' events emitted when stop() was called, and the
  \* offsets before and after the last reopen that followed an error
  stoppedAt, recovery,
  \* ---- SseHub (index.ts:19-21) and the sinks (http.ServerResponse)
  clients, sinkState, pending, received, raised,
  \* the frames broadcast() has built, in call order
  sent,
  \* ---- MultiNdjsonTailer (tailer.ts:185-189) and the directory it scans
  dirEntries, tailers, multiWatcher, scanTimer, scanning, multiStopped,
  \* position of start(), stop() and scanNow(), and scanNow()'s local
  multiStartPc, multiStopPc, scanPc, entries,
  \* whether the last scan ended in its catch, the children of each path
  \* that are started and not stopped, and the last 'data' event forwarded
  scanError, running, dataEvent,
  \* the children whose stop() never settles, the child whose stop() the
  \* scan awaits, and the paths stop() has warned about
  stuck, retiring, abandoned

ringVars == <<cap, buf, head, count, nextId, issued, lastQuery>>
tailVars == <<startAtEnd, fd, offset, inode, buffer, timer, stopped, looping,
              watcher, idleBackoffMs, startPc, loopPc, stats, ostats,
              toRead, readTotal, progressed, emitted, stream, base,
              rotatedAt, truncatedAt, stopPc, resyncPc, rstats, faults,
              reading, fdClosing, stoppedAt, recovery>>
ctlVars  == <<stopPc, resyncPc, rstats, faults, stoppedAt>>
opVars   == <<ctlVars, reading, fdClosing, recovery>>
fsVars   == <<pathIno, files>>
hubVars  == <<clients, sinkState, pending, received, raised, sent>>
dirVars  == <<dirEntries, tailers, multiWatcher, scanTimer, scanning,
              multiStopped, multiStartPc, multiStopPc, scanPc, entries,
              scanError, running, dataEvent, stuck, retiring, abandoned>>
vars     == <<ringVars, tailVars, fsVars, hubVars, dirVars>>

None    == <<>>
Some(x) == <<x>>

Min(a, b) == IF a < b THEN a ELSE b
Max(a, b) == IF a > b THEN a ELSE b

IsPrefix(s, t) == Len(s) <= Len(t) /\ SubSeq(t, 1, Len(s)) = s

Range(q) == {q[i] : i \in 1 .. Len(q)}

(***************************************************************************)
(*                              RingBuffer                                   *)
(***************************************************************************)

\* Bounds of the ring model.
MaxCap  == 3
MaxPush == 4

\* The families pushed in the ring model, and one that is never pushed.
RingFamilies == {"problems", "history"}
Records      == {"r"}

\* query(): the clamp of limit and the default (ringbuffer.ts:33).
LimitMin     == 1
LimitMax     == 10000
LimitDefault == 100

\* constructor (ringbuffer.ts:10-14): capacity <= 0 throws, so cap > 0.
RingNew(c) ==
  /\ cap = c
  /\ buf = [i \in 0 .. c - 1 |-> None]
  /\ head = 0
  /\ count = 0
  /\ nextId = 1
  /\ issued = <<>>
  /\ lastQuery = None

\* A bug push() could have: the id taken from count instead of nextId.
NewEnvelope_FromCount(item) ==
  [id |-> count + 1, file |-> item.file, family |-> item.family,
   record |-> item.record]

\* push(): the envelope built (ringbuffer.ts:17-21); time is not modelled.
NewEnvelope(item) ==
  [id |-> nextId, file |-> item.file, family |-> item.family,
   record |-> item.record]

\* A bug push() could have: count grows without the cap test.
NextCount_NoCap == count + 1

\* push(): if (this.count < this.cap) this.count++ (ringbuffer.ts:24).
NextCount == IF count < cap THEN count + 1 ELSE count

\* push(): this.head = (this.head + 1) % this.cap (ringbuffer.ts:23).
NextHead == (head + 1) % cap

\* push() as a state change (ringbuffer.ts:16-26).
RingPush(item) ==
  LET env == NewEnvelope(item) IN
  /\ buf' = [buf EXCEPT ![head] = Some(env)]
  /\ head' = NextHead
  /\ count' = NextCount
  /\ nextId' = nextId + 1
  /\ issued' = Append(issued, env)

\* latestId() (ringbuffer.ts:28-30).
LatestId == nextId - 1

\* query(): Math.max(1, Math.min(10000, opts.limit ?? 100)) (ringbuffer.ts:33).
ClampLimit(limit) ==
  Max(LimitMin, Min(LimitMax, IF limit = None THEN LimitDefault ELSE limit[1]))

\* A bug query() could have: v.id < sinceId instead of <=.
SkipSince_OffByOne(v, sinceId) == v.id < sinceId

\* query(): if (v.id <= sinceId) continue (ringbuffer.ts:43).
SkipSince(v, sinceId) == v.id <= sinceId

\* query(): if (fam && v.source.family !== fam) continue (ringbuffer.ts:44);
\* an undefined or empty family is falsy and filters nothing.
SkipFamily(v, fam) == fam # None /\ fam[1] # "" /\ v.family # fam[1]

\* query(): the scan from the oldest resident slot (ringbuffer.ts:37-48).
RECURSIVE QueryLoop(_, _, _, _, _, _)
QueryLoop(i, n, out, limit, sinceId, fam) ==
  IF i >= n THEN out
  ELSE LET idx == (head - n + i + cap) % cap
           v   == buf[idx]
       IN IF v = None THEN QueryLoop(i + 1, n, out, limit, sinceId, fam)
          ELSE IF SkipSince(v[1], sinceId)
            THEN QueryLoop(i + 1, n, out, limit, sinceId, fam)
          ELSE IF SkipFamily(v[1], fam)
            THEN QueryLoop(i + 1, n, out, limit, sinceId, fam)
          ELSE LET out2 == Append(out, v[1]) IN
               IF Len(out2) >= limit THEN out2
               ELSE QueryLoop(i + 1, n, out2, limit, sinceId, fam)

\* query(opts) (ringbuffer.ts:32-49).
Query(fam, limit, sinceId) ==
  QueryLoop(0, count, <<>>, ClampLimit(limit),
            IF sinceId = None THEN 0 ELSE sinceId[1], fam)

\* The requests of the ring model: family, limit and sinceId, each optional.
QFamilies == {None, Some(""), Some("problems"), Some("other")}
QLimits   == {None} \cup {Some(l) : l \in {-1, 1, 2, LimitMax + 1}}
QSince    == {None} \cup {Some(k) : k \in 0 .. MaxPush}

\* multi.on('data') pushes one envelope (index.ts:88); here without the hub.
Push ==
  /\ nextId <= MaxPush
  /\ \E f \in RingFamilies, r \in Records :
       RingPush([file |-> f, family |-> f, record |-> r])
  /\ lastQuery' = None
  /\ UNCHANGED <<cap, tailVars, fsVars, hubVars, dirVars>>

\* The JSON snapshot: ring.query({family, limit, sinceId}) and
\* ring.latestId() (index.ts:213-214).
Snapshot ==
  /\ \E fam \in QFamilies, limit \in QLimits, sinceId \in QSince :
       lastQuery' = Some([family |-> fam, limit |-> limit, sinceId |-> sinceId,
                          items |-> Query(fam, limit, sinceId),
                          latestId |-> LatestId])
  /\ UNCHANGED <<cap, buf, head, count, nextId, issued>>
  /\ UNCHANGED <<tailVars, fsVars, hubVars, dirVars>>

(***************************************************************************)
(*                     NdjsonTailer: line assembly                           *)
(***************************************************************************)

\* Bytes: an ASCII letter, the two line-ending bytes, and the two bytes of
\* the UTF-8 encoding of U+00E9 (0xC3 0xA9).
LF == "\n"
CR == "\r"
LeadByte == "C3"
ContByte == "A9"
LineBytes == {"a", LF, CR, LeadByte, ContByte}

\* Characters the decoder produces besides the ASCII ones.
EAcute == "U+00E9"
Replacement == "U+FFFD"

\* Bounds of the line-assembly model.
MaxChunk  == 2
MaxStream == 4

\* bytes.toString('utf8') (tailer.ts:164): each call decodes its own bytes;
\* a lead byte without its continuation byte, and a continuation byte
\* without its lead byte, each decode to U+FFFD.
RECURSIVE Utf8ToString(_)
Utf8ToString(bytes) ==
  IF bytes = <<>> THEN <<>>
  ELSE IF bytes[1] = LeadByte
    THEN IF Len(bytes) >= 2 /\ bytes[2] = ContByte
           THEN <<EAcute>> \o Utf8ToString(Tail(Tail(bytes)))
           ELSE <<Replacement>> \o Utf8ToString(Tail(bytes))
  ELSE IF bytes[1] = ContByte
    THEN <<Replacement>> \o Utf8ToString(Tail(bytes))
  ELSE <<bytes[1]>> \o Utf8ToString(Tail(bytes))

\* String.prototype.indexOf: the first position of c in s, 0 if none
\* (positions count from 1 here).
IndexOf(s, c) ==
  IF \E i \in 1 .. Len(s) : s[i] = c
    THEN CHOOSE i \in 1 .. Len(s) :
           s[i] = c /\ \A j \in 1 .. i - 1 : s[j] # c
    ELSE 0

\* line.replace(/\r$/, '') (tailer.ts:167).
StripCR(line) ==
  IF Len(line) > 0 /\ line[Len(line)] = CR
    THEN SubSeq(line, 1, Len(line) - 1)
    ELSE line

\* onBytes(): the while loop over the assembly buffer (tailer.ts:166-172).
RECURSIVE AssembleLoop(_, _)
AssembleLoop(b, out) ==
  LET idx == IndexOf(b, LF) IN
  IF idx = 0 THEN [buffer |-> b, lines |-> out]
  ELSE LET line == StripCR(SubSeq(b, 1, idx - 1))
           rest == SubSeq(b, idx + 1, Len(b))
       IN IF line = <<>> THEN AssembleLoop(rest, out)
          ELSE AssembleLoop(rest, Append(out, line))

\* onBytes(bytes) (tailer.ts:162-176): the new assembly buffer and the
\* lines emitted as 'data' events.
OnBytes(buf0, bytes) == AssembleLoop(buf0 \o Utf8ToString(bytes), <<>>)

\* The non-empty chunks of at most MaxChunk bytes.
RECURSIVE SeqsUpTo(_, _)
SeqsUpTo(S, n) ==
  IF n = 0 THEN {<<>>}
  ELSE LET shorter == SeqsUpTo(S, n - 1) IN
       shorter \cup {Append(q, x) : q \in shorter, x \in S}

Chunks == SeqsUpTo(LineBytes, MaxChunk) \ {<<>>}

\* One call of onBytes with a chunk of the byte stream.
FeedChunk ==
  /\ \E chunk \in Chunks :
       /\ Len(stream) + Len(chunk) <= MaxStream
       /\ LET r == OnBytes(buffer, chunk) IN
          /\ buffer' = r.buffer
          /\ emitted' = emitted \o r.lines
       /\ stream' = stream \o chunk
  /\ UNCHANGED <<startAtEnd, fd, offset, inode, timer, stopped, looping,
                 watcher, idleBackoffMs, startPc, loopPc, stats, ostats,
                 toRead, readTotal, progressed, base, rotatedAt, truncatedAt>>
  /\ UNCHANGED <<ringVars, fsVars, hubVars, dirVars, opVars>>

\* What the spec says the line sequence of a text is: split on \n, strip one
\* trailing \r, drop the empty entries; the piece after the last \n is the
\* unterminated suffix.
RECURSIVE SplitOn(_, _)
SplitOn(s, c) ==
  LET i == IndexOf(s, c) IN
  IF i = 0 THEN <<s>>
  ELSE <<SubSeq(s, 1, i - 1)>> \o SplitOn(SubSeq(s, i + 1, Len(s)), c)

NonEmpty(l) == l # <<>>

StripEach(parts) == [k \in 1 .. Len(parts) |-> StripCR(parts[k])]

CompleteLines(text) ==
  LET parts == SplitOn(text, LF) IN
  SelectSeq(StripEach(SubSeq(parts, 1, Len(parts) - 1)), NonEmpty)

UnterminatedSuffix(text) ==
  LET parts == SplitOn(text, LF) IN parts[Len(parts)]


(***************************************************************************)
(*               NdjsonTailer: start(), poke(), loop(), openFile()           *)
(***************************************************************************)

\* Bounds of the tail model: bytes held by the files together, inodes the
\* path can name.
MaxBytes == 3
MaxIno   == 2

\* The poll interval and the backoff cap (constructor options, tailer.ts:32-36).
IntervalMs   == 1
MaxBackoffMs == 2

\* Buffer.allocUnsafe(Math.min(toRead, 64 * 1024)) (tailer.ts:135).
ChunkSize == 65536

\* The bytes the followed files are written with.
FileBytes == {"a", LF, LeadByte, ContByte}

\* What a file can hold when the tailer is constructed, or when it is
\* created by a rotation.
InitialContents == {<<>>, <<"a", LF>>, <<"a">>}

\* constructor (tailer.ts:15-37), with the fields' initial values.
TailNew(sae) ==
  /\ startAtEnd = sae
  /\ fd = None
  /\ offset = 0
  /\ inode = None
  /\ buffer = <<>>
  /\ timer = FALSE
  /\ stopped = FALSE
  /\ looping = FALSE
  /\ watcher = FALSE
  /\ idleBackoffMs = IntervalMs
  /\ startPc = "new"
  /\ loopPc = "idle"
  /\ stats = None
  /\ ostats = [c \in {"start", "loop"} |-> None]
  /\ toRead = 0
  /\ readTotal = 0
  /\ progressed = FALSE
  /\ emitted = <<>>
  /\ stream = <<>>
  /\ base = None
  /\ rotatedAt = None
  /\ truncatedAt = None
  /\ stopPc = "idle"
  /\ resyncPc = "idle"
  /\ rstats = None
  /\ faults = 0
  /\ reading = None
  /\ fdClosing = FALSE
  /\ stoppedAt = None
  /\ recovery = None

\* The directory: the path names inode 1, which holds `content`.
FsNew(content) ==
  /\ pathIno = 1
  /\ files = [i \in 1 .. MaxIno |-> IF i = 1 THEN content ELSE <<>>]

\* The bytes the files hold together.
RECURSIVE BytesUpTo(_)
BytesUpTo(i) == IF i = 0 THEN 0 ELSE Len(files[i]) + BytesUpTo(i - 1)

TotalBytes == BytesUpTo(MaxIno)

\* fs.promises.stat(this.filePath) (tailer.ts:94, 118).
StatPath == [ino |-> pathIno, size |-> Len(files[pathIno])]

\* openFile(): this.offset = this.startAtEnd ? stats.size : 0 (tailer.ts:97).
OpenOffset(st) == IF startAtEnd THEN st.size ELSE 0

\* What a reopen after an error is remembered by: whether a handle was
\* held, the offset and the inode before the error; the inode, the size
\* and the offset of the reopen.
ErrorAt(off) ==
  Some([held |-> fd # None, before |-> off, ino |-> inode, now |-> None,
        size |-> None, after |-> None])

Recovered(st, off) ==
  IF recovery = None THEN None
  ELSE Some([recovery[1] EXCEPT !.now = Some(st.ino), !.size = Some(st.size),
                                !.after = Some(off)])

\* loop(): the catch block is entered (tailer.ts:149-151) with this.fd = h:
\* closeFile() awaits the close of a handle, or returns at once and
\* openFile() calls stat.
CatchEntry(h, off) ==
  /\ loopPc' = IF h # None THEN "cclose" ELSE "cstat"
  /\ fdClosing' = IF h # None THEN TRUE ELSE fdClosing
  /\ recovery' = ErrorAt(off)

\* loop(): this.fd.read is called with this.fd = h (tailer.ts:140). On
\* null it throws, and on a handle close() was called on it is rejected:
\* the catch block is entered; otherwise the read is in flight.
IssueRead(h, off) ==
  IF h = None \/ fdClosing
    THEN /\ reading' = None
         /\ CatchEntry(h, off)
    ELSE /\ reading' = h
         /\ loopPc' = "read"
         /\ UNCHANGED <<fdClosing, recovery>>

\* loop(): the branch taken once the handle is settled (tailer.ts:127-148),
\* up to the first read: what offset and buffer become, and whether the read
\* loop is entered. st is the cycle's stat result.
LoopBody(st, fdNow, offsetNow) ==
  IF fdNow = None
    THEN [offset |-> offsetNow, buffer |-> buffer, toRead |-> 0, pc |-> "fin"]
  ELSE IF st.size < offsetNow
    THEN [offset |-> 0, buffer |-> <<>>, toRead |-> 0, pc |-> "fin"]
  ELSE IF st.size > offsetNow
    THEN [offset |-> offsetNow, buffer |-> buffer,
          toRead |-> st.size - offsetNow, pc |-> "read"]
  ELSE [offset |-> offsetNow, buffer |-> buffer, toRead |-> 0, pc |-> "fin"]

\* loop(): the finally block (tailer.ts:153-159); the locals die.
Finally(prog) ==
  /\ looping' = FALSE
  /\ loopPc' = "idle"
  /\ stats' = None
  /\ toRead' = 0
  /\ readTotal' = 0
  /\ progressed' = FALSE
  /\ IF stopped
       THEN UNCHANGED <<idleBackoffMs, timer>>
       ELSE /\ idleBackoffMs' = IF prog THEN IntervalMs
                                ELSE Min(idleBackoffMs * 2, MaxBackoffMs)
            /\ timer' = TRUE

\* loop(): the two guards and the start of the cycle (tailer.ts:111-118).
LoopCall ==
  IF stopped \/ looping
    THEN UNCHANGED <<looping, loopPc>>
    ELSE /\ looping' = TRUE
         /\ loopPc' = "stat"

\* start(): this.stopped = false, then openFile() up to its stat
\* (tailer.ts:47-49).
Start ==
  /\ startPc = "new"
  /\ stopped' = FALSE
  /\ startPc' = "stat"
  /\ UNCHANGED <<startAtEnd, fd, offset, inode, buffer, timer, looping,
                 watcher, idleBackoffMs, loopPc, stats, ostats, toRead,
                 readTotal, progressed, emitted, stream, base, rotatedAt,
                 truncatedAt, pathIno, files>>
  /\ UNCHANGED <<ringVars, hubVars, dirVars, opVars>>

\* start() is called again only while the lines emitted and the characters
\* held in the assembly buffer are fewer than this: every further call
\* with startAtEnd false reads the file again from offset 0.
MaxReplayed == 2

\* start() is called on a tailer that is started: it has no test of its
\* own and does what the first call did (tailer.ts:47-49).
StartAgain ==
  /\ startPc = "done"
  /\ ~stopped
  /\ Len(emitted) + Len(buffer) < MaxReplayed
  /\ stopped' = FALSE
  /\ startPc' = "stat"
  /\ UNCHANGED <<startAtEnd, fd, offset, inode, buffer, timer, looping,
                 watcher, idleBackoffMs, loopPc, stats, ostats, toRead,
                 readTotal, progressed, emitted, stream, base, rotatedAt,
                 truncatedAt, pathIno, files>>
  /\ UNCHANGED <<ringVars, hubVars, dirVars, opVars>>

\* start() in openFile(): the stat returns (tailer.ts:94-96).
StartStat ==
  /\ startPc = "stat"
  /\ ostats' = [ostats EXCEPT !["start"] = Some(StatPath)]
  /\ inode' = Some(pathIno)
  /\ startPc' = "open"
  /\ UNCHANGED <<startAtEnd, fd, offset, buffer, timer, stopped, looping,
                 watcher, idleBackoffMs, loopPc, stats, toRead, readTotal,
                 progressed, emitted, stream, base, rotatedAt, truncatedAt,
                 pathIno, files>>
  /\ UNCHANGED <<ringVars, hubVars, dirVars, opVars>>

\* start() in openFile(): the open returns (tailer.ts:96-98); then
\* startWatcher(), where fs.watch may throw and leave this.watcher as it
\* was (tailer.ts:63-76), and loop().
StartOpen ==
  /\ startPc = "open"
  /\ fd' = Some(pathIno)
  /\ offset' = OpenOffset(ostats["start"][1])
  /\ base' = Some(offset')
  /\ ostats' = [ostats EXCEPT !["start"] = None]
  /\ watcher' \in {watcher, TRUE}
  /\ LoopCall
  /\ startPc' = "done"
  /\ UNCHANGED <<startAtEnd, inode, buffer, timer, stopped, idleBackoffMs,
                 stats, toRead, readTotal, progressed, emitted, stream,
                 rotatedAt, truncatedAt, pathIno, files>>
  /\ UNCHANGED <<ringVars, hubVars, dirVars, opVars>>

\* The poll timer fires: () => this.loop() (tailer.ts:157).
TimerFire ==
  /\ timer
  /\ timer' = FALSE
  /\ LoopCall
  /\ UNCHANGED <<startAtEnd, fd, offset, inode, buffer, stopped, watcher,
                 idleBackoffMs, startPc, stats, ostats, toRead, readTotal,
                 progressed, emitted, stream, base, rotatedAt, truncatedAt,
                 pathIno, files>>
  /\ UNCHANGED <<ringVars, hubVars, dirVars, opVars>>

\* A change hint for this file: the fs.watch callback calls poke()
\* (tailer.ts:65-68, 83-90).
Poke ==
  /\ watcher
  /\ idleBackoffMs' = IntervalMs
  /\ timer' = FALSE
  /\ LoopCall
  /\ UNCHANGED <<startAtEnd, fd, offset, inode, buffer, stopped, watcher,
                 startPc, stats, ostats, toRead, readTotal, progressed,
                 emitted, stream, base, rotatedAt, truncatedAt, pathIno,
                 files>>
  /\ UNCHANGED <<ringVars, hubVars, dirVars, opVars>>

\* loop(): the stat returns (tailer.ts:118-121). On an inode change the
\* handle is closed (an await when there is one); otherwise the cycle goes on
\* to the first read or ends (tailer.ts:127-159).
LoopStat ==
  /\ loopPc = "stat"
  /\ LET st == StatPath IN
     IF inode # None /\ st.ino # inode[1]
       THEN /\ stats' = Some(st)
            /\ rotatedAt' = Some([n |-> Len(emitted), ino |-> st.ino,
                                  off |-> None])
            /\ IF fd # None
                 THEN /\ loopPc' = "close"
                      /\ fdClosing' = TRUE
                      /\ UNCHANGED inode
                 ELSE /\ loopPc' = "ostat"
                      /\ inode' = Some(st.ino)
                      /\ UNCHANGED fdClosing
            /\ UNCHANGED <<offset, buffer, toRead, readTotal, progressed,
                           looping, timer, idleBackoffMs, reading, recovery>>
       ELSE LET b == LoopBody(st, fd, offset)
            IN /\ offset' = b.offset
               /\ buffer' = b.buffer
               /\ UNCHANGED <<inode, rotatedAt>>
               /\ IF b.pc = "read"
                    THEN /\ stats' = Some(st)
                         /\ toRead' = b.toRead
                         /\ readTotal' = 0
                         /\ IssueRead(fd, b.offset)
                         /\ UNCHANGED <<progressed, looping, timer,
                                        idleBackoffMs>>
                    ELSE /\ Finally(FALSE)
                         /\ UNCHANGED <<reading, fdClosing, recovery>>
  /\ UNCHANGED <<startAtEnd, fd, stopped, watcher, startPc, ostats, emitted,
                 stream, base, truncatedAt, pathIno, files>>
  /\ UNCHANGED <<ringVars, hubVars, dirVars, ctlVars>>

\* loop(): closeFile() returns (tailer.ts:104-109, 122-124); the new inode
\* is adopted and openFile() runs up to its stat.
LoopClose ==
  /\ loopPc = "close"
  /\ fd' = None
  /\ fdClosing' = FALSE
  /\ inode' = Some(stats[1].ino)
  /\ loopPc' = "ostat"
  /\ UNCHANGED <<startAtEnd, offset, buffer, timer, stopped, looping, watcher,
                 idleBackoffMs, startPc, stats, ostats, toRead, readTotal,
                 progressed, emitted, stream, base, rotatedAt, truncatedAt,
                 pathIno, files>>
  /\ UNCHANGED <<ringVars, hubVars, dirVars, ctlVars, reading, recovery>>

\* loop() in openFile(): the stat returns (tailer.ts:94-96).
LoopOpenStat ==
  /\ loopPc = "ostat"
  /\ ostats' = [ostats EXCEPT !["loop"] = Some(StatPath)]
  /\ inode' = Some(pathIno)
  /\ loopPc' = "oopen"
  /\ UNCHANGED <<startAtEnd, fd, offset, buffer, timer, stopped, looping,
                 watcher, idleBackoffMs, startPc, stats, toRead, readTotal,
                 progressed, emitted, stream, base, rotatedAt, truncatedAt,
                 pathIno, files>>
  /\ UNCHANGED <<ringVars, hubVars, dirVars, opVars>>

\* loop() in openFile(): the open returns (tailer.ts:96-98), and the cycle
\* goes on with the stat result it started with (tailer.ts:127-159).
LoopOpenOpen ==
  /\ loopPc = "oopen"
  /\ LET off == OpenOffset(ostats["loop"][1])
         b   == LoopBody(stats[1], Some(pathIno), off)
     IN /\ fd' = Some(pathIno)
        /\ offset' = b.offset
        /\ buffer' = b.buffer
        /\ rotatedAt' = IF rotatedAt = None THEN rotatedAt
                        ELSE Some([rotatedAt[1] EXCEPT !.off = Some(off)])
        /\ IF b.pc = "read"
             THEN /\ toRead' = b.toRead
                  /\ readTotal' = 0
                  /\ reading' = Some(pathIno)
                  /\ loopPc' = "read"
                  /\ UNCHANGED <<stats, progressed, looping, timer,
                                 idleBackoffMs>>
             ELSE /\ Finally(FALSE)
                  /\ UNCHANGED reading
  /\ fdClosing' = FALSE
  /\ ostats' = [ostats EXCEPT !["loop"] = None]
  /\ UNCHANGED <<startAtEnd, inode, stopped, watcher, startPc, emitted,
                 stream, base, truncatedAt, pathIno, files>>
  /\ UNCHANGED <<ringVars, hubVars, dirVars, ctlVars, recovery>>

\* this.fd.read(chunk, 0, len, position) (tailer.ts:139-140): the bytes of
\* the open file from `position`, at most len of them.
ReadAt(f, position, len) ==
  SubSeq(files[f], position + 1, Min(Len(files[f]), position + len))

\* loop(): one read returns (tailer.ts:138-148), then the loop test; at
\* the end of the loop the offset moves and the cycle ends (tailer.ts:146-159).
LoopRead ==
  /\ loopPc = "read"
  /\ LET len   == Min(Min(toRead, ChunkSize), toRead - readTotal)
         bytes == ReadAt(reading[1], offset + readTotal, len)
         total == readTotal + Len(bytes)
         r     == OnBytes(buffer, bytes)
     IN IF bytes = <<>>
          THEN /\ offset' = offset + readTotal
               /\ Finally(readTotal > 0)
               /\ reading' = None
               /\ UNCHANGED <<buffer, emitted, fdClosing, recovery>>
          ELSE /\ buffer' = r.buffer
               /\ emitted' = emitted \o r.lines
               /\ IF total < toRead
                    THEN /\ readTotal' = total
                         /\ IssueRead(fd, offset)
                         /\ UNCHANGED <<offset, looping, stats, toRead,
                                        progressed, idleBackoffMs, timer>>
                    ELSE /\ offset' = offset + total
                         /\ Finally(total > 0)
                         /\ reading' = None
                         /\ UNCHANGED <<fdClosing, recovery>>
  /\ UNCHANGED <<startAtEnd, fd, inode, stopped, watcher, startPc, ostats,
                 stream, base, rotatedAt, truncatedAt, pathIno, files>>
  /\ UNCHANGED <<ringVars, hubVars, dirVars, ctlVars>>

\* ---- I/O errors, the forced resync, and stop()

\* The file operations that fail in a behaviour.
MaxFaults == 2

CanFail == faults < MaxFaults

\* start() in openFile(): the stat or the open fails (tailer.ts:99-101);
\* start() goes on with startWatcher() and loop() (tailer.ts:50-51).
StartOpenFails ==
  /\ startPc \in {"stat", "open"}
  /\ CanFail
  /\ faults' = faults + 1
  /\ ostats' = [ostats EXCEPT !["start"] = None]
  /\ watcher' \in BOOLEAN
  /\ LoopCall
  /\ startPc' = "done"
  /\ UNCHANGED <<startAtEnd, fd, offset, inode, buffer, timer, stopped,
                 idleBackoffMs, stats, toRead, readTotal, progressed, emitted,
                 stream, base, rotatedAt, truncatedAt, pathIno, files, stopPc,
                 resyncPc, rstats, stoppedAt, reading, fdClosing, recovery>>
  /\ UNCHANGED <<ringVars, hubVars, dirVars>>

\* loop(): the stat fails (tailer.ts:118, 149-151).
LoopStatFails ==
  /\ loopPc = "stat"
  /\ CanFail
  /\ faults' = faults + 1
  /\ CatchEntry(fd, offset)
  /\ UNCHANGED <<startAtEnd, fd, offset, inode, buffer, timer, stopped,
                 looping, watcher, idleBackoffMs, startPc, stats, ostats,
                 toRead, readTotal, progressed, emitted, stream, base,
                 rotatedAt, truncatedAt, pathIno, files, stopPc, resyncPc,
                 rstats, stoppedAt, reading>>
  /\ UNCHANGED <<ringVars, hubVars, dirVars>>

\* loop(): the read in flight fails (tailer.ts:140, 149-151).
LoopReadFails ==
  /\ loopPc = "read"
  /\ CanFail
  /\ faults' = faults + 1
  /\ reading' = None
  /\ CatchEntry(fd, offset)
  /\ UNCHANGED <<startAtEnd, fd, offset, inode, buffer, timer, stopped,
                 looping, watcher, idleBackoffMs, startPc, stats, ostats,
                 toRead, readTotal, progressed, emitted, stream, base,
                 rotatedAt, truncatedAt, pathIno, files, stopPc, resyncPc,
                 rstats, stoppedAt>>
  /\ UNCHANGED <<ringVars, hubVars, dirVars>>

\* loop(), catch: closeFile() returns (tailer.ts:104-109, 151), and
\* openFile() calls stat.
CatchClose ==
  /\ loopPc = "cclose"
  /\ fd' = None
  /\ fdClosing' = FALSE
  /\ loopPc' = "cstat"
  /\ UNCHANGED <<startAtEnd, offset, inode, buffer, timer, stopped, looping,
                 watcher, idleBackoffMs, startPc, stats, ostats, toRead,
                 readTotal, progressed, emitted, stream, base, rotatedAt,
                 truncatedAt, pathIno, files, stopPc, resyncPc, rstats,
                 faults, stoppedAt, reading, recovery>>
  /\ UNCHANGED <<ringVars, hubVars, dirVars>>

\* loop(), catch, in openFile(): the stat returns (tailer.ts:94-96).
CatchStat ==
  /\ loopPc = "cstat"
  /\ ostats' = [ostats EXCEPT !["loop"] = Some(StatPath)]
  /\ inode' = Some(pathIno)
  /\ loopPc' = "copen"
  /\ UNCHANGED <<startAtEnd, fd, offset, buffer, timer, stopped, looping,
                 watcher, idleBackoffMs, startPc, stats, toRead, readTotal,
                 progressed, emitted, stream, base, rotatedAt, truncatedAt,
                 pathIno, files, stopPc, resyncPc, rstats, faults, stoppedAt,
                 reading, fdClosing, recovery>>
  /\ UNCHANGED <<ringVars, hubVars, dirVars>>

\* loop(), catch, in openFile(): the open returns (tailer.ts:96-98), then
\* the finally block.
CatchOpen ==
  /\ loopPc = "copen"
  /\ fd' = Some(pathIno)
  /\ fdClosing' = FALSE
  /\ offset' = OpenOffset(ostats["loop"][1])
  /\ recovery' = Recovered(ostats["loop"][1], offset')
  /\ ostats' = [ostats EXCEPT !["loop"] = None]
  /\ Finally(FALSE)
  /\ UNCHANGED <<startAtEnd, inode, buffer, stopped, watcher, startPc,
                 emitted, stream, base, rotatedAt, truncatedAt, pathIno,
                 files, stopPc, resyncPc, rstats, faults, stoppedAt, reading>>
  /\ UNCHANGED <<ringVars, hubVars, dirVars>>

\* loop(), catch, in openFile(): the stat or the open fails
\* (tailer.ts:99-101), then the finally block.
CatchOpenFails ==
  /\ loopPc \in {"cstat", "copen"}
  /\ CanFail
  /\ faults' = faults + 1
  /\ ostats' = [ostats EXCEPT !["loop"] = None]
  /\ Finally(FALSE)
  /\ UNCHANGED <<startAtEnd, fd, offset, inode, buffer, stopped, watcher,
                 startPc, emitted, stream, base, rotatedAt, truncatedAt,
                 pathIno, files, stopPc, resyncPc, rstats, stoppedAt, reading,
                 fdClosing, recovery>>
  /\ UNCHANGED <<ringVars, hubVars, dirVars>>

\* The watcher reports an error: poke(true) (tailer.ts:69-72, 83-90).
\* closeFile().then(() => openFile()) runs beside the poll cycle.
WatcherError ==
  /\ watcher
  /\ resyncPc = "idle"
  /\ CanFail
  /\ faults' = faults + 1
  /\ resyncPc' = IF fd # None THEN "close" ELSE "stat"
  /\ fdClosing' = IF fd # None THEN TRUE ELSE fdClosing
  /\ recovery' = ErrorAt(offset)
  /\ idleBackoffMs' = IntervalMs
  /\ timer' = FALSE
  /\ LoopCall
  /\ UNCHANGED <<startAtEnd, fd, offset, inode, buffer, stopped, watcher,
                 startPc, stats, ostats, toRead, readTotal, progressed,
                 emitted, stream, base, rotatedAt, truncatedAt, pathIno,
                 files, stopPc, rstats, stoppedAt, reading>>
  /\ UNCHANGED <<ringVars, hubVars, dirVars>>

\* poke(true): closeFile() returns; the close waits for a read in flight.
ResyncClose ==
  /\ resyncPc = "close"
  /\ reading = None
  /\ fd' = None
  /\ fdClosing' = FALSE
  /\ resyncPc' = "stat"
  /\ UNCHANGED <<startAtEnd, offset, inode, buffer, timer, stopped, looping,
                 watcher, idleBackoffMs, startPc, loopPc, stats, ostats,
                 toRead, readTotal, progressed, emitted, stream, base,
                 rotatedAt, truncatedAt, pathIno, files, stopPc, rstats,
                 faults, stoppedAt, reading, recovery>>
  /\ UNCHANGED <<ringVars, hubVars, dirVars>>

\* poke(true) in openFile(): the stat returns (tailer.ts:94-96).
ResyncStat ==
  /\ resyncPc = "stat"
  /\ rstats' = Some(StatPath)
  /\ inode' = Some(pathIno)
  /\ resyncPc' = "open"
  /\ UNCHANGED <<startAtEnd, fd, offset, buffer, timer, stopped, looping,
                 watcher, idleBackoffMs, startPc, loopPc, stats, ostats,
                 toRead, readTotal, progressed, emitted, stream, base,
                 rotatedAt, truncatedAt, pathIno, files, stopPc, faults,
                 stoppedAt, reading, fdClosing, recovery>>
  /\ UNCHANGED <<ringVars, hubVars, dirVars>>

\* poke(true) in openFile(): the open returns (tailer.ts:96-98).
ResyncOpen ==
  /\ resyncPc = "open"
  /\ fd' = Some(pathIno)
  /\ fdClosing' = FALSE
  /\ offset' = OpenOffset(rstats[1])
  /\ recovery' = Recovered(rstats[1], offset')
  /\ rstats' = None
  /\ resyncPc' = "idle"
  /\ UNCHANGED <<startAtEnd, inode, buffer, timer, stopped, looping, watcher,
                 idleBackoffMs, startPc, loopPc, stats, ostats, toRead,
                 readTotal, progressed, emitted, stream, base, rotatedAt,
                 truncatedAt, pathIno, files, stopPc, faults, stoppedAt,
                 reading>>
  /\ UNCHANGED <<ringVars, hubVars, dirVars>>

\* stop() (tailer.ts:54-59): the flag, the timer, the watcher, and
\* closeFile() up to its await.
Stop ==
  /\ startPc # "new"
  /\ stopPc = "idle"
  /\ stopped' = TRUE
  /\ timer' = FALSE
  /\ watcher' = FALSE
  /\ stoppedAt' = Some(Len(emitted))
  /\ stopPc' = IF fd # None THEN "close" ELSE "done"
  /\ fdClosing' = IF fd # None THEN TRUE ELSE fdClosing
  /\ UNCHANGED <<startAtEnd, fd, offset, inode, buffer, looping,
                 idleBackoffMs, startPc, loopPc, stats, ostats, toRead,
                 readTotal, progressed, emitted, stream, base, rotatedAt,
                 truncatedAt, pathIno, files, resyncPc, rstats, faults,
                 reading, recovery>>
  /\ UNCHANGED <<ringVars, hubVars, dirVars>>

\* stop(): closeFile() returns (tailer.ts:104-109); the close waits for a
\* read in flight.
StopClose ==
  /\ stopPc = "close"
  /\ reading = None
  /\ fd' = None
  /\ fdClosing' = FALSE
  /\ stopPc' = "done"
  /\ UNCHANGED <<startAtEnd, offset, inode, buffer, timer, stopped, looping,
                 watcher, idleBackoffMs, startPc, loopPc, stats, ostats,
                 toRead, readTotal, progressed, emitted, stream, base,
                 rotatedAt, truncatedAt, pathIno, files, resyncPc, rstats,
                 faults, stoppedAt, reading, recovery>>
  /\ UNCHANGED <<ringVars, hubVars, dirVars>>

\* ---- the writer of the files

\* The writer appends one byte to the file the path names.
AppendByte ==
  /\ TotalBytes < MaxBytes
  /\ \E b \in FileBytes :
       files' = [files EXCEPT ![pathIno] = Append(@, b)]
  /\ UNCHANGED <<tailVars, pathIno>>
  /\ UNCHANGED <<ringVars, hubVars, dirVars, opVars>>

\* Rotation: the file is unlinked or renamed and a new file, with a new
\* inode, is created at the path.
Rotate ==
  /\ pathIno < MaxIno
  /\ pathIno' = pathIno + 1
  /\ \E c \in InitialContents :
       /\ TotalBytes + Len(c) <= MaxBytes
       /\ files' = [files EXCEPT ![pathIno + 1] = c]
  /\ UNCHANGED tailVars
  /\ UNCHANGED <<ringVars, hubVars, dirVars, opVars>>

\* Truncation: the file the path names is cut to 0 bytes in place.
Truncate ==
  /\ truncatedAt = None
  /\ startPc = "done"
  /\ files[pathIno] # <<>>
  /\ files' = [files EXCEPT ![pathIno] = <<>>]
  /\ truncatedAt' = Some(Len(emitted))
  /\ UNCHANGED <<startAtEnd, fd, offset, inode, buffer, timer, stopped,
                 looping, watcher, idleBackoffMs, startPc, loopPc, stats,
                 ostats, toRead, readTotal, progressed, emitted, stream, base,
                 rotatedAt, pathIno>>
  /\ UNCHANGED <<ringVars, hubVars, dirVars, opVars>>

(***************************************************************************)
(*                   SseHub and the wiring (index.ts)                        *)
(***************************************************************************)

\* The sinks (http.ServerResponse objects) that may connect.
Sinks == {"s1", "s2"}

\* The families of the data events of the hub model.
HubFamilies == {"problems", "history"}

\* Bounds of the hub model: the data events, and the drop threshold
\* (SSE_DROP_THRESHOLD, index.ts:23) in the units PktLen counts in.
MaxBroadcast  == 2
DropThreshold == 2

\* The capacity of the ring of the hub model (RB_CAPACITY, index.ts:73):
\* smaller than MaxBroadcast, so that envelopes are evicted.
HubCap == 1

\* The hub and the sinks as one value, as safeWrite reads and changes them.
HubState ==
  [clients |-> clients, sinkState |-> sinkState, pending |-> pending,
   received |-> received, raised |-> {}]

\* this.clients.delete(res) (index.ts:28): the Set keeps insertion order.
Remove(q, s) == SelectSeq(q, LAMBDA x : x # s)

\* broadcast(): the frame of an event (index.ts:62-67).
EventPkt(event, payload, id) ==
  [id |-> Some(id), event |-> event, data |-> payload]

\* heartbeatStart(): the comment frame (index.ts:33).
HeartbeatPkt == [id |-> None, event |-> None, data |-> "hb"]

\* multi.on('data'): const evt = `zabbix.${family}` (index.ts:89).
EventName(family) == <<"zabbix.", family>>

\* The bytes a frame adds to a sink's writableLength, in model units.
PktLen(pkt) == IF pkt.id = None THEN 1 ELSE 2

\* A bug the test could have: a frame is dropped only above the threshold.
SafeWrite_DropAbove(h, s, pkt, R) ==
  IF h.sinkState[s] # "open"
    THEN [h EXCEPT !.clients = Remove(@, s)]
  ELSE IF h.pending[s] > DropThreshold
    THEN h
  ELSE IF s \in R
    THEN [h EXCEPT !.sinkState[s] = "ended",
                   !.clients = Remove(@, s),
                   !.raised = @ \cup {s}]
  ELSE [h EXCEPT !.pending[s] = @ + PktLen(pkt),
                 !.received[s] = IF pkt.id # None THEN Append(@, pkt) ELSE @]

\* safeWrite(res, pkt) (index.ts:48-59); R holds the sinks whose
\* res.write throws. The event frames written are kept in received;
\* heartbeat comments only count in pending.
SafeWrite(h, s, pkt, R) ==
  IF h.sinkState[s] # "open"
    THEN [h EXCEPT !.clients = Remove(@, s)]
  ELSE IF h.pending[s] >= DropThreshold
    THEN h
  ELSE IF s \in R
    THEN [h EXCEPT !.sinkState[s] = "ended",
                   !.clients = Remove(@, s),
                   !.raised = @ \cup {s}]
  ELSE [h EXCEPT !.pending[s] = @ + PktLen(pkt),
                 !.received[s] = IF pkt.id # None THEN Append(@, pkt) ELSE @]

\* A bug the loop could have: walking the registry by position, so that a
\* removal makes it pass over the sink that follows.
RECURSIVE WriteByIndex(_, _, _, _)
WriteByIndex(h, i, pkt, R) ==
  IF i > Len(h.clients) THEN h
  ELSE WriteByIndex(SafeWrite(h, h.clients[i], pkt, R), i + 1, pkt, R)

WriteAll_SkipAfterDelete(h, todo, pkt, R) == WriteByIndex(h, 1, pkt, R)

\* A bug the loop could have: a write that throws ends the loop.
RECURSIVE WriteAll_AbortOnRaise(_, _, _, _)
WriteAll_AbortOnRaise(h, todo, pkt, R) ==
  IF todo = <<>> THEN h
  ELSE LET h2 == SafeWrite(h, Head(todo), pkt, R) IN
       IF Head(todo) \in h2.raised THEN h2
       ELSE WriteAll_AbortOnRaise(h2, Tail(todo), pkt, R)

\* for (const res of this.clients) this.safeWrite(res, pkt)
\* (index.ts:34, 68): safeWrite removes only the sink it is called with,
\* so the walk visits the sinks registered when it starts, in order.
RECURSIVE WriteAll(_, _, _, _)
WriteAll(h, todo, pkt, R) ==
  IF todo = <<>> THEN h
  ELSE WriteAll(SafeWrite(h, Head(todo), pkt, R), Tail(todo), pkt, R)

\* The hub variables take the value h.
HubBecomes(h) ==
  /\ clients' = h.clients
  /\ sinkState' = h.sinkState
  /\ pending' = h.pending
  /\ received' = h.received
  /\ raised' = h.raised

\* A client asks for the event stream (index.ts:192-204): the response
\* writes ": connected" and is registered.
Connect ==
  /\ \E s \in Sinks :
       /\ sinkState[s] = "new"
       /\ sinkState' = [sinkState EXCEPT ![s] = "open"]
       /\ pending' = [pending EXCEPT ![s] = @ + PktLen(HeartbeatPkt)]
       /\ clients' = Append(clients, s)
  /\ raised' = {}
  /\ UNCHANGED <<received, sent, ringVars, tailVars, fsVars, dirVars>>

\* The connection of a sink breaks: the response is destroyed, and its
\* request's 'close' event has not been delivered yet.
SinkDestroyed ==
  /\ \E s \in Sinks :
       /\ sinkState[s] = "open"
       /\ sinkState' = [sinkState EXCEPT ![s] = "destroyed"]
  /\ raised' = {}
  /\ UNCHANGED <<clients, pending, received, sent, ringVars, tailVars, fsVars,
                 dirVars>>

\* req.on('close') (index.ts:203): hub.delete(res), res.end().
ReqClose ==
  /\ \E s \in Sinks :
       /\ sinkState[s] \in {"open", "destroyed"}
       /\ clients' = Remove(clients, s)
       /\ sinkState' = [sinkState EXCEPT ![s] = "ended"]
  /\ raised' = {}
  /\ UNCHANGED <<pending, received, sent, ringVars, tailVars, fsVars, dirVars>>

\* The socket of a sink sends some of its pending bytes.
Drain ==
  /\ \E s \in Sinks :
       /\ sinkState[s] = "open"
       /\ pending[s] > 0
       /\ \E p \in 0 .. pending[s] - 1 :
            pending' = [pending EXCEPT ![s] = p]
  /\ raised' = {}
  /\ UNCHANGED <<clients, sinkState, received, sent, ringVars, tailVars,
                 fsVars, dirVars>>

\* A bug the wiring could have: the id of the frame read from latestId()
\* before the push.
DataPkt_IdBeforePush(family, env) ==
  EventPkt(EventName(family), env.record, LatestId)

\* multi.on('data'): the frame of the envelope push() returned
\* (index.ts:88-90).
DataPkt(family, env) == EventPkt(EventName(family), env.record, env.id)

\* multi.on('data') (index.ts:87-91): ring.push, then hub.broadcast of the
\* envelope's record with its id (index.ts:61-69).
OnData ==
  /\ nextId <= MaxBroadcast
  /\ \E f \in HubFamilies, r \in Records, R \in SUBSET Sinks :
       LET item == [file |-> f, family |-> f, record |-> r]
           pkt  == DataPkt(f, NewEnvelope(item))
       IN /\ RingPush(item)
          /\ sent' = Append(sent, pkt)
          /\ HubBecomes(WriteAll(HubState, clients, pkt, R))
          /\ R = raised'
  /\ UNCHANGED <<cap, lastQuery, tailVars, fsVars, dirVars>>

\* The heartbeat interval fires (index.ts:32-35).
Heartbeat ==
  /\ \E R \in SUBSET Sinks :
       /\ HubBecomes(WriteAll(HubState, clients, HeartbeatPkt, R))
       /\ R = raised'
  /\ UNCHANGED <<sent, ringVars, tailVars, fsVars, dirVars>>

(***************************************************************************)
(*                 MultiNdjsonTailer (tailer.ts:180-338)                     *)
(***************************************************************************)

\* A basename is a sequence of pieces: the words the patterns and the
\* family derivation look for, "-", a digit, a piece "x" without any of
\* them, and the extensions.
Pieces ==
  {"problems", "history", "main-process", "task-manager", "-", "1", "x",
   ".ndjson", ".old"}

\* base.startsWith(prefix), base.includes(word), and the $ of a pattern.
StartsWith(n, prefix) == IsPrefix(prefix, n)
Includes(n, word)     == \E i \in 1 .. Len(n) : n[i] = word
EndsWith(n, piece)    == Len(n) > 0 /\ n[Len(n)] = piece

\* /^(problems|history)-.*\.ndjson$/ (tailer.ts:201).
MatchesAny(n) ==
  /\ StartsWith(n, <<"problems", "-">>) \/ StartsWith(n, <<"history", "-">>)
  /\ Len(n) >= 3
  /\ EndsWith(n, ".ndjson")

\* /^<word>-.*-(main-process|task-manager)-\d+\.ndjson$/ (tailer.ts:202-203).
MatchesProcess(n, word) ==
  /\ StartsWith(n, <<word, "-">>)
  /\ EndsWith(n, ".ndjson")
  /\ \E k \in 3 .. Len(n) - 4 :
       /\ n[k] = "-"
       /\ n[k + 1] \in {"main-process", "task-manager"}
       /\ n[k + 2] = "-"
       /\ \A j \in k + 3 .. Len(n) - 1 : n[j] = "1"

\* this.patterns.some(p => p.test(n)) (tailer.ts:200-204, 288).
MatchesPatterns(n) ==
  \/ MatchesAny(n)
  \/ MatchesProcess(n, "problems")
  \/ MatchesProcess(n, "history")

\* this.ignore.some(p => p.test(n)), with /\.old$/ (tailer.ts:205, 289).
MatchesIgnore(n) == EndsWith(n, ".old")

\* scanNow(): the want set of an enumeration (tailer.ts:286-291).
Want(ents) == {n \in ents : MatchesPatterns(n) /\ ~MatchesIgnore(n)}

\* A bug the derivation could have: the words are looked for before the
\* prefixes.
FamilyOf_WordsFirst(b) ==
  IF Includes(b, "main-process") THEN "main-process"
  ELSE IF Includes(b, "task-manager") THEN "task-manager"
  ELSE IF StartsWith(b, <<"problems", "-">>) THEN "problems"
  ELSE IF StartsWith(b, <<"history", "-">>) THEN "history"
  ELSE "other"

\* The data handler of a child: the family of a basename (tailer.ts:311-317).
FamilyOf(b) ==
  IF StartsWith(b, <<"problems", "-">>) THEN "problems"
  ELSE IF StartsWith(b, <<"history", "-">>) THEN "history"
  ELSE IF Includes(b, "main-process") THEN "main-process"
  ELSE IF Includes(b, "task-manager") THEN "task-manager"
  ELSE "other"

\* The basenames the directory of the model can hold, in the order readdir
\* lists them.
DirNames ==
  << <<"problems", "-", "x", ".ndjson">>,
     <<"problems", "-", "x", ".ndjson", ".old">>,
     <<"history", "-", "x", "-", "main-process", "-", "1", ".ndjson">>,
     <<"x", ".ndjson">> >>

\* constructor (tailer.ts:185-189) and the directory, which holds `ents`.
MultiNew(ents) ==
  /\ dirEntries = ents
  /\ tailers = <<>>
  /\ multiWatcher = FALSE
  /\ scanTimer = FALSE
  /\ scanning = FALSE
  /\ multiStopped = FALSE
  /\ multiStartPc = "new"
  /\ multiStopPc = "idle"
  /\ scanPc = "idle"
  /\ entries = None
  /\ scanError = FALSE
  /\ running = [n \in Range(DirNames) |-> 0]
  /\ dataEvent = None
  /\ stuck = {}
  /\ retiring = None
  /\ abandoned = {}

\* The keys of the Map, in insertion order, that are not wanted.
Unwanted(q, w) == SelectSeq(q, LAMBDA n : n \notin w)

\* A bug the first loop could have: no test for a path already tracked.
RECURSIVE CreateLoop_NoHasTest(_, _, _)
CreateLoop_NoHasTest(i, w, st) ==
  IF i > Len(DirNames) \/ multiStopped THEN st
  ELSE IF DirNames[i] \notin w THEN CreateLoop_NoHasTest(i + 1, w, st)
  ELSE CreateLoop_NoHasTest(i + 1, w,
         [tailers |-> IF DirNames[i] \in Range(st.tailers) THEN st.tailers
                      ELSE Append(st.tailers, DirNames[i]),
          running |-> [st.running EXCEPT ![DirNames[i]] = @ + 1]])

\* scanNow(): the first loop (tailer.ts:293-322), which has no await while
\* the tailer is not stopped: a child is made, put in the Map and started
\* for every wanted path the Map does not hold. st is the Map and the
\* count of started, not stopped children of each path.
RECURSIVE CreateLoop(_, _, _)
CreateLoop(i, w, st) ==
  IF i > Len(DirNames) \/ multiStopped THEN st
  ELSE IF DirNames[i] \notin w THEN CreateLoop(i + 1, w, st)
  ELSE IF DirNames[i] \in Range(st.tailers) THEN CreateLoop(i + 1, w, st)
  ELSE CreateLoop(i + 1, w,
         [tailers |-> Append(st.tailers, DirNames[i]),
          running |-> [st.running EXCEPT ![DirNames[i]] = @ + 1]])

\* t.stop() is called on the child tracked for path n.
StopChild(r, n) == [r EXCEPT ![n] = Max(@ - 1, 0)]

\* scanNow(): the finally block (tailer.ts:334-336); start() then goes on
\* to startWatcher(), where fs.watch may throw (tailer.ts:224, 251-261).
ScanEnd(err) ==
  /\ scanning' = FALSE
  /\ scanPc' = "idle"
  /\ entries' = None
  /\ scanError' = err
  /\ retiring' = None
  /\ IF multiStartPc = "scan"
       THEN /\ multiStartPc' = "done"
            /\ multiWatcher' \in BOOLEAN
       ELSE UNCHANGED <<multiStartPc, multiWatcher>>

\* scanNow(): the second loop (tailer.ts:324-330) from the Map q on, e
\* being what readdir returned: stop() is called on the first tracked child
\* that is not wanted and awaited, or the scan ends.
RetireLoop(q, r, e) ==
  IF Unwanted(q, Want(e)) = <<>>
    THEN /\ running' = r
         /\ ScanEnd(FALSE)
    ELSE /\ running' = StopChild(r, Head(Unwanted(q, Want(e))))
         /\ scanPc' = "retire"
         /\ entries' = Some(e)
         /\ retiring' = Some(Head(Unwanted(q, Want(e))))
         /\ UNCHANGED <<scanning, scanError, multiStartPc, multiWatcher>>

\* scanNow(): the two guards, and the call of readdir (tailer.ts:274-285).
ScanCall ==
  IF multiStopped \/ scanning
    THEN UNCHANGED <<scanning, scanPc>>
    ELSE /\ scanning' = TRUE
         /\ scanPc' = "readdir"

\* start() (tailer.ts:221-223): the first scan is called.
MultiStart ==
  /\ multiStartPc = "new"
  /\ multiStopped' = FALSE
  /\ multiStartPc' = "scan"
  /\ scanning' = TRUE
  /\ scanPc' = "readdir"
  /\ UNCHANGED <<dirEntries, tailers, multiWatcher, scanTimer, multiStopPc,
                 entries, scanError, running, dataEvent>>
  /\ UNCHANGED <<stuck, retiring, abandoned>>
  /\ UNCHANGED <<ringVars, tailVars, fsVars, hubVars>>

\* scanNow(): readdir throws, and the scan ends with a warning
\* (tailer.ts:331-336).
ScanReaddirFails ==
  /\ scanPc = "readdir"
  /\ ScanEnd(TRUE)
  /\ UNCHANGED <<dirEntries, tailers, scanTimer, multiStopped, multiStopPc,
                 running, dataEvent>>
  /\ UNCHANGED <<stuck, abandoned>>
  /\ UNCHANGED <<ringVars, tailVars, fsVars, hubVars>>

\* scanNow(): readdir returns (tailer.ts:285-330): the want set, the first
\* loop, and the second loop up to its first await.
ScanReaddir ==
  /\ scanPc = "readdir"
  /\ LET st == CreateLoop(1, Want(dirEntries),
                           [tailers |-> tailers, running |-> running])
     IN /\ tailers' = st.tailers
        /\ RetireLoop(st.tailers, st.running, dirEntries)
  /\ UNCHANGED <<dirEntries, scanTimer, multiStopped, multiStopPc, dataEvent>>
  /\ UNCHANGED <<stuck, abandoned>>
  /\ UNCHANGED <<ringVars, tailVars, fsVars, hubVars>>

\* scanNow(): an awaited t.stop() returns (tailer.ts:326-328): the path is
\* deleted from the Map and the second loop goes on.
ScanRetire ==
  /\ scanPc = "retire"
  /\ retiring[1] \notin stuck
  /\ LET w == Want(entries[1])
         q == IF Unwanted(tailers, w) = <<>> THEN tailers
              ELSE SelectSeq(tailers,
                             LAMBDA n : n # Head(Unwanted(tailers, w)))
     IN /\ tailers' = q
        /\ RetireLoop(q, running, entries[1])
  /\ UNCHANGED <<dirEntries, scanTimer, multiStopped, multiStopPc, dataEvent>>
  /\ UNCHANGED <<stuck, abandoned>>
  /\ UNCHANGED <<ringVars, tailVars, fsVars, hubVars>>

\* A change hint or an error of the directory watcher: debouncedScan()
\* (tailer.ts:253-257, 268-272).
DirHint ==
  /\ multiWatcher
  /\ ~multiStopped
  /\ scanTimer' = TRUE
  /\ UNCHANGED <<dirEntries, tailers, multiWatcher, scanning, multiStopped,
                 multiStartPc, multiStopPc, scanPc, entries, scanError, running,
                 dataEvent>>
  /\ UNCHANGED <<stuck, retiring, abandoned>>
  /\ UNCHANGED <<ringVars, tailVars, fsVars, hubVars>>

\* The debounce timer fires (tailer.ts:271).
ScanTimerFire ==
  /\ scanTimer
  /\ scanTimer' = FALSE
  /\ ScanCall
  /\ UNCHANGED <<dirEntries, tailers, multiWatcher, multiStopped,
                 multiStartPc, multiStopPc, entries, scanError, running,
                 dataEvent>>
  /\ UNCHANGED <<stuck, retiring, abandoned>>
  /\ UNCHANGED <<ringVars, tailVars, fsVars, hubVars>>

\* stop() (tailer.ts:227-247): the flag, the watcher, the timer, and stop()
\* called on every tracked child.
RECURSIVE StopAll(_, _)
StopAll(q, r) ==
  IF q = <<>> THEN r ELSE StopAll(Tail(q), StopChild(r, Head(q)))

MultiStop ==
  /\ multiStartPc # "new"
  /\ multiStopPc = "idle"
  /\ multiStopped' = TRUE
  /\ multiWatcher' = FALSE
  /\ scanTimer' = FALSE
  /\ running' = StopAll(tailers, running)
  /\ multiStopPc' = "wait"
  /\ UNCHANGED <<dirEntries, tailers, scanning, multiStartPc, scanPc, entries,
                 scanError, dataEvent>>
  /\ UNCHANGED <<stuck, retiring, abandoned>>
  /\ UNCHANGED <<ringVars, tailVars, fsVars, hubVars>>

\* stop(): every child's stop() has settled or lost the race against its
\* 2 s timer, which is warned about (tailer.ts:236-248); a child whose
\* stop() never settles always loses it.
MultiStopDone ==
  /\ multiStopPc = "wait"
  /\ \E late \in SUBSET Range(tailers) :
       /\ stuck \cap Range(tailers) \subseteq late
       /\ abandoned' = abandoned \cup late
  /\ tailers' = <<>>
  /\ multiStopPc' = "done"
  /\ UNCHANGED <<dirEntries, multiWatcher, scanTimer, scanning, multiStopped,
                 multiStartPc, scanPc, entries, scanError, running, dataEvent>>
  /\ UNCHANGED <<stuck, retiring>>
  /\ UNCHANGED <<ringVars, tailVars, fsVars, hubVars>>

\* A file appears in the directory, or a file of the directory goes.
DirChange ==
  /\ \E n \in Range(DirNames) :
       dirEntries' = IF n \in dirEntries THEN dirEntries \ {n}
                     ELSE dirEntries \cup {n}
  /\ UNCHANGED <<tailers, multiWatcher, scanTimer, scanning, multiStopped,
                 multiStartPc, multiStopPc, scanPc, entries, scanError, running,
                 dataEvent>>
  /\ UNCHANGED <<stuck, retiring, abandoned>>
  /\ UNCHANGED <<ringVars, tailVars, fsVars, hubVars>>

\* The close of a tracked child's handle never settles from now on (a hung
\* mount): the closeFile() that its stop() awaits (tailer.ts:59, 106) does
\* not return.
ChildHangs ==
  /\ \E n \in Range(tailers) \ stuck : stuck' = stuck \cup {n}
  /\ UNCHANGED <<dirEntries, tailers, multiWatcher, scanTimer, scanning,
                 multiStopped, multiStartPc, multiStopPc, scanPc, entries,
                 scanError, running, dataEvent, retiring, abandoned>>
  /\ UNCHANGED <<ringVars, tailVars, fsVars, hubVars>>

(***************************************************************************)
\* The longest basename of the family model, in pieces.
MaxName == 3

\* The basenames a child's file can have.
Basenames == SeqsUpTo(Pieces, MaxName) \cup Range(DirNames)

\* t.on('data', ...) (tailer.ts:310-319): a tracked child emits a record
\* of its file, and the event is forwarded with the family of the basename.
ChildData ==
  /\ \E i \in 1 .. Len(tailers), r \in Records :
       dataEvent' = Some([file |-> tailers[i], family |-> FamilyOf(tailers[i]),
                          record |-> r])
  /\ UNCHANGED <<dirEntries, tailers, multiWatcher, scanTimer, scanning,
                 multiStopped, multiStartPc, multiStopPc, scanPc, entries,
                 scanError, running>>
  /\ UNCHANGED <<stuck, retiring, abandoned>>
  /\ UNCHANGED <<ringVars, tailVars, fsVars, hubVars>>

(*                             Specifications                                *)
(***************************************************************************)

\* The hub before any client has connected (index.ts:19-25, 72).
HubNew ==
  /\ clients = <<>>
  /\ sinkState = [s \in Sinks |-> "new"]
  /\ pending = [s \in Sinks |-> 0]
  /\ received = [s \in Sinks |-> <<>>]
  /\ raised = {}
  /\ sent = <<>>

\* The ring alone: pushes and snapshots, for every capacity up to MaxCap.
InitRing ==
  /\ \E c \in 1 .. MaxCap : RingNew(c)
  /\ TailNew(TRUE) /\ FsNew(<<>>)
  /\ HubNew
  /\ MultiNew({})

NextRing == Push \/ Snapshot

SpecRing == InitRing /\ [][NextRing]_vars

\* Line assembly alone: onBytes fed a byte stream cut into chunks.
InitLines ==
  /\ RingNew(1)
  /\ TailNew(TRUE) /\ FsNew(<<>>)
  /\ HubNew
  /\ MultiNew({})

NextLines == FeedChunk

SpecLines == InitLines /\ [][NextLines]_vars

\* One tailer following a file that is only appended to.
InitTail ==
  /\ RingNew(1)
  /\ \E sae \in BOOLEAN : TailNew(sae)
  /\ \E c \in InitialContents : FsNew(c)
  /\ HubNew
  /\ MultiNew({})

NextAppend ==
  \/ Start \/ StartStat \/ StartOpen
  \/ TimerFire \/ Poke
  \/ LoopStat \/ LoopRead
  \/ AppendByte

SpecAppend == InitTail /\ [][NextAppend]_vars

\* The same where start() is called again on the started tailer.
NextRestart ==
  \/ NextAppend
  \/ StartAgain

SpecRestart == InitTail /\ [][NextRestart]_vars

\* The same with rotations of the file.
NextRotate ==
  \/ NextAppend
  \/ LoopClose \/ LoopOpenStat \/ LoopOpenOpen
  \/ Rotate

SpecRotate == InitTail /\ [][NextRotate]_vars

\* The same with a truncation of the file.
NextTruncate ==
  \/ NextAppend
  \/ Truncate

SpecTruncate == InitTail /\ [][NextTruncate]_vars

\* One tailer whose file operations fail and whose watcher reports errors.
NextFaults ==
  \/ NextAppend
  \/ StartOpenFails \/ LoopStatFails \/ LoopReadFails
  \/ CatchClose \/ CatchStat \/ CatchOpen \/ CatchOpenFails
  \/ WatcherError \/ ResyncClose \/ ResyncStat \/ ResyncOpen

SpecFaults == InitTail /\ [][NextFaults]_vars

\* One tailer that is stopped at any moment after start() was called.
NextStop ==
  \/ NextAppend
  \/ Stop \/ StopClose
  \/ CatchClose \/ CatchStat \/ CatchOpen

SpecStop == InitTail /\ [][NextStop]_vars

\* One tailer whose openFile() may fail at start, under fair scheduling:
\* every file operation called returns and the poll timer fires.
NextOpenRetry ==
  \/ Start \/ StartStat \/ StartOpen \/ StartOpenFails
  \/ TimerFire \/ Poke
  \/ LoopStat \/ LoopRead
  \/ AppendByte

SpecOpenRetry ==
  /\ InitTail
  /\ [][NextOpenRetry]_vars
  /\ WF_vars(Start)
  /\ WF_vars(StartStat \/ StartOpen \/ StartOpenFails)
  /\ WF_vars(TimerFire)
  /\ WF_vars(LoopStat)
  /\ WF_vars(LoopRead)

\* The hub with the ring: clients connect, drain and go, data events are
\* pushed and broadcast, heartbeats are written.
InitHub ==
  /\ RingNew(HubCap)
  /\ TailNew(TRUE) /\ FsNew(<<>>)
  /\ HubNew
  /\ MultiNew({})

NextHub ==
  \/ Connect \/ SinkDestroyed \/ ReqClose \/ Drain
  \/ OnData \/ Heartbeat

SpecHub == InitHub /\ [][NextHub]_vars

\* The directory tailer: files come and go, hints are delivered or not,
\* scans run, and the tailer is stopped.
InitDir ==
  /\ RingNew(1)
  /\ TailNew(TRUE) /\ FsNew(<<>>)
  /\ HubNew
  /\ \E e \in SUBSET Range(DirNames) : MultiNew(e)

NextDir ==
  \/ MultiStart \/ ScanReaddir \/ ScanReaddirFails \/ ScanRetire
  \/ DirHint \/ ScanTimerFire
  \/ MultiStop \/ MultiStopDone
  \/ DirChange \/ ChildData

SpecDir == InitDir /\ [][NextDir]_vars

\* The same without enumeration errors and under fair scheduling: a scan
\* that is called runs to its end and the debounce timer fires; whether a
\* change hint is delivered is left open.
NextDirLive ==
  \/ MultiStart \/ ScanReaddir \/ ScanRetire
  \/ DirHint \/ ScanTimerFire
  \/ MultiStop \/ MultiStopDone
  \/ DirChange

SpecDirLive ==
  /\ InitDir
  /\ [][NextDirLive]_vars
  /\ WF_vars(MultiStart)
  /\ WF_vars(ScanReaddir)
  /\ WF_vars(ScanRetire)
  /\ WF_vars(ScanTimerFire)

\* The same where the stop() of a child may never settle: the scan goes on
\* when the stop() it awaits returns, and the 2 s timers of stop() fire.
NextDirStuck ==
  \/ MultiStart \/ ScanReaddir \/ ScanRetire
  \/ DirHint \/ ScanTimerFire
  \/ MultiStop \/ MultiStopDone
  \/ DirChange \/ ChildHangs

SpecDirStuck ==
  /\ InitDir
  /\ [][NextDirStuck]_vars
  /\ WF_vars(MultiStart)
  /\ WF_vars(ScanReaddir)
  /\ WF_vars(ScanRetire)
  /\ WF_vars(ScanTimerFire)
  /\ WF_vars(MultiStopDone)

\* The data handler of one child alone, for every basename its file can
\* have under include patterns given as options (tailer.ts:200).
InitFamily ==
  /\ RingNew(1)
  /\ TailNew(TRUE) /\ FsNew(<<>>)
  /\ HubNew
  /\ \E b \in Basenames :
       /\ dirEntries = {b}
       /\ tailers = <<b>>
       /\ running = [n \in Range(DirNames) \cup {b} |-> IF n = b THEN 1 ELSE 0]
  /\ multiWatcher = FALSE /\ scanTimer = FALSE /\ scanning = FALSE
  /\ multiStopped = FALSE /\ multiStartPc = "done" /\ multiStopPc = "idle"
  /\ scanPc = "idle" /\ entries = None /\ scanError = FALSE
  /\ dataEvent = None
  /\ stuck = {} /\ retiring = None /\ abandoned = {}

NextFamily == ChildData

SpecFamily == InitFamily /\ [][NextFamily]_vars

(***************************************************************************)
(*                         Claims on the RingBuffer                          *)
(***************************************************************************)

\* The envelopes resident in the backing storage.
ResidentSet == {buf[i][1] : i \in {j \in 0 .. cap - 1 : buf[j] # None}}


\* C1: the k-th push returns the envelope with id k (ids 1..N in call order,
\* also after the ring has wrapped), latestId() is N after N pushes and 0
\* before the first, and a snapshot reports the same latestId.
C1_IdsInCallOrder ==
  /\ \A k \in 1 .. Len(issued) : issued[k].id = k
  /\ LatestId = Len(issued)
  /\ lastQuery # None => lastQuery[1].latestId = Len(issued)

\* C1's case: a ring of capacity 2 that has wrapped twice.
C1_Witness ==
  /\ cap = 2
  /\ Len(issued) = 4
  /\ issued[4].id = 4
  /\ LatestId = 4

\* C2: after M pushes on a ring of capacity C, what a query with sinceId 0,
\* no family and the largest limit returns is exactly the envelopes pushed
\* with ids max(1, M-C+1)..M, each once, and count never exceeds C.
C2_LastCResident ==
  LET M        == Len(issued)
      lo       == Max(1, M - cap + 1)
      resident == Query(None, Some(LimitMax), Some(0))
  IN /\ count <= cap
     /\ Range(resident) = {issued[k] : k \in lo .. M}
     /\ Len(resident) = M - lo + 1

\* C2's case: more pushes than the capacity, so envelopes were evicted.
C2_Witness ==
  /\ cap = 2
  /\ Len(issued) = 4
  /\ count = 2
  /\ {e.id : e \in Range(Query(None, Some(LimitMax), Some(0)))} = {3, 4}

\* The limit as the claim states it: the default, then the clamp.
ClaimedLimit(limit) ==
  IF limit = None THEN LimitDefault
  ELSE IF limit[1] < LimitMin THEN LimitMin
  ELSE IF limit[1] > LimitMax THEN LimitMax
  ELSE limit[1]

\* The resident envelopes a request asks for: id > sinceId (default 0) and,
\* when a family is given (a non-empty string), that family.
Matching(q) ==
  {e \in ResidentSet :
     /\ e.id > (IF q.sinceId = None THEN 0 ELSE q.sinceId[1])
     /\ (q.family # None /\ q.family[1] # "") => e.family = q.family[1]}

\* C3: a query returns resident envelopes only, each with id > sinceId and
\* of the requested family, in strictly ascending id order (so none twice),
\* and at most min(clamped limit, number of matching resident envelopes).
C3_QueryResult ==
  lastQuery # None =>
    LET q     == lastQuery[1]
        items == q.items
    IN /\ Range(items) \subseteq Matching(q)
       /\ \A i, j \in 1 .. Len(items) : i < j => items[i].id < items[j].id
       /\ Len(items) <= Min(ClaimedLimit(q.limit), Cardinality(Matching(q)))

\* C3's case: a filtered, limited query on a ring that has wrapped.
C3_Witness ==
  /\ lastQuery # None
  /\ Len(issued) > cap
  /\ lastQuery[1].family = Some("problems")
  /\ lastQuery[1].sinceId = Some(2)
  /\ lastQuery[1].limit = Some(1)
  /\ Len(lastQuery[1].items) = 1
  /\ Cardinality(Matching(lastQuery[1])) = 2

\* C4: when more resident envelopes match than the limit allows, the
\* snapshot's items are the `limit` matching envelopes with the highest ids
\* (the newest matching envelope is among them).
C4_NewestItems ==
  lastQuery # None =>
    LET q   == lastQuery[1]
        lim == ClaimedLimit(q.limit)
        m   == Matching(q)
    IN Cardinality(m) > lim =>
         Range(q.items) =
           {e \in m : Cardinality({x \in m : x.id > e.id}) < lim}

(***************************************************************************)
(*                       Claims on the NdjsonTailer                          *)
(***************************************************************************)

\* C5: however the byte stream is cut into the chunks passed to onBytes,
\* the data events are the lines of the concatenated stream (split on \n,
\* one trailing \r stripped, empty entries dropped), a line being emitted
\* only once its \n has arrived, and the assembly buffer holds the
\* unterminated suffix.
C5_ChunkingIndependent ==
  /\ emitted = CompleteLines(Utf8ToString(stream))
  /\ buffer = UnterminatedSuffix(Utf8ToString(stream))

\* The text the followed file holds from byte position `from` on.
TextFrom(from) ==
  Utf8ToString(SubSeq(files[pathIno], from + 1, Len(files[pathIno])))

\* The tailer has no cycle in progress and has read the file to its end.
CaughtUp == loopPc = "idle" /\ fd # None /\ offset = Len(files[pathIno])

\* C6: for a file that is only appended to, the data events are, in file
\* order and each once, the complete non-empty lines appended after the
\* file was opened: at every moment a prefix of them, and all of them once
\* the tailer has read the file to its end.
C6_AppendedLinesOnceInOrder ==
  base # None =>
    /\ IsPrefix(emitted, CompleteLines(TextFrom(base[1])))
    /\ CaughtUp => emitted = CompleteLines(TextFrom(base[1]))

\* The data events emitted after the first n.
EmittedAfter(n) == SubSeq(emitted, n + 1, Len(emitted))

\* C7: when a poll cycle finds another inode at the path, the tailer
\* reopens the new file at offset 0, and the data events emitted after that
\* are the complete lines of the new file from offset 0, those already in
\* the file when the rotation is detected included: at every moment a prefix
\* of them, and all of them once the tailer has read the new file to its end.
\* This is for startAtEnd = TRUE as for startAtEnd = FALSE.
C7_RotationReadsFromZero ==
  rotatedAt # None =>
    LET r == rotatedAt[1] IN
    /\ r.off # None => r.off[1] = 0
    /\ (fd = Some(r.ino) /\ pathIno = r.ino) =>
         /\ IsPrefix(EmittedAfter(r.n), CompleteLines(TextFrom(0)))
         /\ CaughtUp => EmittedAfter(r.n) = CompleteLines(TextFrom(0))

\* C8: after the followed file is truncated and new content is written,
\* whatever the interleaving with the poll cycles, the data events emitted
\* after the truncation are the complete lines of the new content read from
\* offset 0 (none skipped, none emitted from its middle, no partial line
\* buffered before the truncation): at every moment a prefix of them, and
\* all of them once the tailer has read the file to its end.
C8_TruncationReadsFromZero ==
  truncatedAt # None =>
    /\ IsPrefix(EmittedAfter(truncatedAt[1]), CompleteLines(TextFrom(0)))
    /\ CaughtUp => EmittedAfter(truncatedAt[1]) = CompleteLines(TextFrom(0))

(***************************************************************************)
(*                           Claims on the SseHub                            *)
(***************************************************************************)

\* The ids of the event frames written to sink s so far.
FrameIds(s) == [i \in 1 .. Len(received[s]) |-> received[s][i].id[1]]

\* The step appends to sink s exactly one frame, the one with id k.
Written(s, k) ==
  /\ Len(received'[s]) = Len(received[s]) + 1
  /\ SubSeq(received'[s], 1, Len(received[s])) = received[s]
  /\ received'[s][Len(received'[s])].id = Some(k)

\* The step writes nothing to sink s.
NotWritten(s) == received'[s] = received[s]

\* After the step, the ids of the frames of every sink strictly increase.
IdsIncrease ==
  \A s \in Sinks :
    \A i, j \in 1 .. Len(received'[s]) :
      i < j => received'[s][i].id[1] < received'[s][j].id[1]

\* The broadcast skipped s because of backpressure.
SkippedForBackpressure(s) ==
  /\ NotWritten(s)
  /\ sinkState[s] = "open"
  /\ pending[s] >= DropThreshold

\* The broadcast found s closed and removed it.
SkippedForClosed(s) ==
  /\ NotWritten(s)
  /\ sinkState[s] # "open"
  /\ s \notin Range(clients')

\* The write to s raised an error: s was ended and removed.
SkippedForRaise(s) ==
  /\ NotWritten(s)
  /\ s \in raised'
  /\ sinkState'[s] = "ended"
  /\ s \notin Range(clients')

\* C9 as stated: in every broadcast, each sink registered at its start is
\* written the frame or is skipped for exactly one of two reasons,
\* backpressure or a closed state that removes it, and the ids a sink is
\* written strictly increase. The code has a third reason: the write
\* raised an error.
C9_WrittenOrSkippedForTwoReasons ==
  [][/\ nextId' # nextId =>
          \A s \in Range(clients) :
            \/ Written(s, nextId)
            \/ SkippedForBackpressure(s)
            \/ SkippedForClosed(s)
     /\ IdsIncrease]_vars

\* C9 amended: in every broadcast, each sink registered at its start is
\* written the frame with the broadcast's id, or is skipped because its
\* pending bytes are at or over the drop threshold, or because it was
\* found closed and removed, or because its write raised an error and it
\* was ended and removed; the ids a sink is written strictly increase.
C9_WrittenOrSkippedForThreeReasons ==
  [][/\ nextId' # nextId =>
          \A s \in Range(clients) :
            \/ Written(s, nextId)
            \/ SkippedForBackpressure(s)
            \/ SkippedForClosed(s)
            \/ SkippedForRaise(s)
     /\ IdsIncrease]_vars

\* Two broadcasts are done; one registered, open sink was written both
\* frames, another one only the first and stands at the drop threshold.
C9_Witness ==
  \E s, t \in Range(clients) :
    /\ sinkState[s] = "open" /\ sinkState[t] = "open"
    /\ FrameIds(s) = <<1, 2>>
    /\ FrameIds(t) = <<1>>
    /\ pending[t] >= DropThreshold
    /\ nextId = 3

\* C10: a sink that stays registered, open and under the drop threshold,
\* and whose write does not raise, is written every broadcast frame, in id
\* order, whatever the other sinks do; a sink whose write raises is ended
\* and removed, and that removes no other sink: the other sinks removed by
\* the same broadcast or heartbeat were found closed.
C10_ClientIsolation ==
  [][/\ nextId' # nextId =>
          \A s \in Range(clients) :
            (sinkState[s] = "open" /\ pending[s] < DropThreshold
               /\ s \notin raised') => Written(s, nextId)
     /\ IdsIncrease
     /\ \A s \in raised' :
          sinkState'[s] = "ended" /\ s \notin Range(clients')
     /\ raised' # {} =>
          \A s \in Range(clients) \ raised' :
            s \notin Range(clients') => sinkState[s] # "open"]_vars

\* The write to one sink raised in the second broadcast, just done: it is
\* ended and gone, and another sink, registered with it, was written the
\* frame and is still registered.
C10_Witness ==
  \E s, t \in Sinks :
    /\ raised = {s}
    /\ sinkState[s] = "ended" /\ s \notin Range(clients)
    /\ t \in Range(clients) /\ sinkState[t] = "open"
    /\ FrameIds(t) = <<1, 2>>
    /\ FrameIds(s) = <<1>>
    /\ nextId = 3

(***************************************************************************)
(*                     Claims on the MultiNdjsonTailer                       *)
(***************************************************************************)

\* What the tracked paths of an enumeration should be: the entries that
\* begin with problems- or history- and end in .ndjson; none ends in .old.
ClaimedTracked(e) ==
  {n \in e : /\ Len(n) >= 3
              /\ n[1] \in {"problems", "history"} /\ n[2] = "-"
              /\ n[Len(n)] = ".ndjson"
              /\ n[Len(n)] # ".old"}

\* The step ends a scan without an enumeration error, the tailer not being
\* stopped; e is what the scan's readdir returned.
ScanCompletes(e) ==
  /\ scanning /\ ~scanning'
  /\ ~scanError'
  /\ ~multiStopped
  /\ e = IF entries = None THEN dirEntries ELSE entries[1]

\* C11: there is at most one FileTailer per path (a path is once in the
\* registry, and at most one child started for it is not stopped), no
\* tracked basename ends in .old, and when a scan completes without an
\* enumeration error while the tailer is not stopped, the tracked paths
\* are exactly the entries it enumerated that match the include patterns
\* and no ignore pattern.
C11_RegistryMatchesDirectory ==
  [][/\ \A n \in Range(DirNames) : running'[n] <= 1
     /\ \A i, j \in 1 .. Len(tailers') : tailers'[i] = tailers'[j] => i = j
     /\ \A n \in Range(tailers') : ~EndsWith(n, ".old")
     /\ \A e \in SUBSET Range(DirNames) :
          ScanCompletes(e) => Range(tailers') = ClaimedTracked(e)]_vars

\* A scan has completed with four entries in the directory: the two that
\* match are tracked, the .old one and the unmatched one are not.
C11_Witness ==
  /\ multiStartPc = "done" /\ ~multiStopped /\ ~scanning /\ ~scanError
  /\ dirEntries = Range(DirNames)
  /\ Range(tailers) = {DirNames[1], DirNames[3]}
  /\ running[DirNames[1]] = 1 /\ running[DirNames[2]] = 0

\* The family the claim gives a basename: the first of the four tests that
\* holds decides.
ClaimedFamily(b) ==
  LET problems == Len(b) >= 2 /\ b[1] = "problems" /\ b[2] = "-"
      history  == Len(b) >= 2 /\ b[1] = "history" /\ b[2] = "-"
      main     == "main-process" \in Range(b)
      task     == "task-manager" \in Range(b)
  IN CASE problems -> "problems"
       [] ~problems /\ history -> "history"
       [] ~problems /\ ~history /\ main -> "main-process"
       [] ~problems /\ ~history /\ ~main /\ task -> "task-manager"
       [] OTHER -> "other"

\* C12: the family of a data event is the first-match-wins function of the
\* basename of its file: problems- prefix, history- prefix, main-process
\* inside, task-manager inside, else other.
C12_FamilyFirstMatchWins ==
  dataEvent # None => dataEvent[1].family = ClaimedFamily(dataEvent[1].file)

\* A data event of a file with neither prefix and both words: main-process.
C12_Witness ==
  /\ dataEvent # None
  /\ dataEvent[1].file = <<"task-manager", "main-process">>
  /\ dataEvent[1].family = "main-process"

(***************************************************************************)
(*                          Claims on the wiring                             *)
(***************************************************************************)

\* Frame f carries envelope v: its id, its record, and zabbix.<family>.
Carries(f, v) ==
  /\ f.id = Some(v.id)
  /\ f.data = v.record
  /\ f.event = <<"zabbix.", v.family>>

\* C13: every data event makes exactly one push and then exactly one
\* broadcast, whose frame carries the id, the record and zabbix.<family> of
\* the envelope just pushed; so the k-th broadcast has id k, and every
\* frame a sink was written carries the envelope with its id that the ring
\* holds, while it holds it.
C13_PushThenBroadcast ==
  [][/\ IF nextId' # nextId
          THEN /\ Len(issued') = Len(issued) + 1
               /\ SubSeq(issued', 1, Len(issued)) = issued
               /\ Len(sent') = Len(sent) + 1
               /\ SubSeq(sent', 1, Len(sent)) = sent
               /\ Carries(sent'[Len(sent')], issued'[Len(issued')])
               /\ \E i \in 0 .. cap - 1 : buf'[i] = Some(issued'[Len(issued')])
          ELSE issued' = issued /\ sent' = sent
     /\ \A k \in 1 .. Len(sent') : sent'[k].id = Some(k)
     /\ \A s \in Sinks : \A k \in 1 .. Len(received'[s]) :
          \A i \in 0 .. cap - 1 :
            (buf'[i] # None /\ Some(buf'[i][1].id) = received'[s][k].id)
              => Carries(received'[s][k], buf'[i][1])]_vars

\* Two data events of two families have been broadcast and a sink was
\* written both frames; the ring has evicted the envelope of the first.
C13_Witness ==
  /\ Len(sent) = 2
  /\ sent[1].event = <<"zabbix.", "problems">>
  /\ sent[2].event = <<"zabbix.", "history">>
  /\ \E s \in Sinks : FrameIds(s) = <<1, 2>>
  /\ \A i \in 0 .. cap - 1 : buf[i] # None => buf[i][1].id = 2

\* The basenames the default patterns make the tailer follow.
Followed == {n \in Range(DirNames) : MatchesPatterns(n) /\ ~MatchesIgnore(n)}

\* The tailer has started and is not stopped.
MultiRuns == multiStartPc = "done" /\ ~multiStopped

\* C20: under fair scheduling, a matching file that appears after start()
\* is eventually tracked, and a tracked file that disappears is eventually
\* retired, whether or not a change hint is delivered.
C20_DiscoveryWithoutHints ==
  \A n \in Followed :
    /\ (MultiRuns /\ n \in dirEntries /\ n \notin Range(tailers))
          ~> (n \in Range(tailers) \/ n \notin dirEntries \/ multiStopped)
    /\ (MultiRuns /\ n \notin dirEntries /\ n \in Range(tailers))
          ~> (n \notin Range(tailers) \/ n \in dirEntries \/ multiStopped)

\* C21: under fair scheduling, where the stop() of a child may never
\* settle, stop() completes with an empty registry and a warning for every
\* stuck child it tracked, a scan that stops a child removes it from the
\* registry, and a scan in progress ends, so that the flag is cleared.
C21_StuckChildAbandoned ==
  /\ (multiStopPc = "wait") ~> (multiStopPc = "done" /\ tailers = <<>>)
  /\ [][MultiStopDone => stuck \cap Range(tailers) \subseteq abandoned']_vars
  /\ \A n \in Range(DirNames) :
       (retiring = Some(n)) ~> (n \notin Range(tailers))
  /\ scanning ~> ~scanning

(***************************************************************************)
(*              Claims on the NdjsonTailer: errors and stop()                *)
(***************************************************************************)

\* The rotation branch has reopened the path and nothing was read since.
JustReopened ==
  /\ rotatedAt # None
  /\ rotatedAt[1].off # None
  /\ fd = Some(rotatedAt[1].ino)
  /\ offset = rotatedAt[1].off[1]
  /\ readTotal = 0

\* C15: once a rotation is detected and the new file is reopened, the
\* assembly buffer is empty: the partial line read from the old file is
\* discarded, so that no later data event holds bytes of the old file.
C15_RotationDiscardsPartial == JustReopened => buffer = <<>>

\* C14: when an I/O error of a poll cycle or a watcher error makes the
\* tailer close its handle and reopen, the offset after the reopen is the
\* offset before the error, unless the inode changed or the size is below
\* that offset.
C14_RecoveryKeepsOffset ==
  (recovery # None /\ recovery[1].held /\ recovery[1].after # None) =>
    ((recovery[1].ino = recovery[1].now
        /\ recovery[1].size[1] >= recovery[1].before)
       => recovery[1].after[1] = recovery[1].before)

\* C16: under fair scheduling, a tailer left without a handle by an open
\* failure gets a handle again once the file can be opened.
C16_OpenFailureRetried ==
  (startPc = "done" /\ fd = None /\ ~stopped) ~> (fd # None)

\* stop() has completed and nothing of the tailer is in flight.
Quiescent ==
  /\ stopPc = "done"
  /\ startPc = "done"
  /\ loopPc = "idle"
  /\ resyncPc = "idle"

\* C17: once stop() has completed and the operations in flight when it was
\* called have finished, the tailer holds no file handle, no watcher and
\* no poll timer.
C17_StopReleasesResources ==
  Quiescent => (fd = None /\ ~watcher /\ ~timer)

\* C18: no data event is emitted after stop() was called.
C18_NoEmissionAfterStop ==
  stoppedAt # None => Len(emitted) = stoppedAt[1]

\* The open and read calls of the tailer that are in flight.
InFlight ==
  (IF startPc = "open" THEN 1 ELSE 0)
    + (IF loopPc \in {"oopen", "copen", "read"} THEN 1 ELSE 0)
    + (IF resyncPc = "open" THEN 1 ELSE 0)

\* C19: at most one open or read of a tailer is in flight at any time,
\* whatever timer ticks, pokes, watcher errors, start() and stop() do.
C19_SingleFlight == InFlight <= 1

(***************************************************************************)
(*                 Claims on the NdjsonTailer: the offset                    *)
(***************************************************************************)

\* The bytes of q up to and with its last newline: those that have been
\* delivered as lines once q has gone through the line assembly.
DeliveredLen(q) ==
  IF \E i \in 1 .. Len(q) : q[i] = LF
    THEN CHOOSE i \in 1 .. Len(q) :
           q[i] = LF /\ \A j \in i + 1 .. Len(q) : q[j] # LF
    ELSE 0

\* The bytes of the followed file the tailer has read since it opened it.
BytesRead == SubSeq(files[pathIno], base[1] + 1, offset)

\* C22: in every state of a tailer that has opened its file, the offset is
\* the exclusive upper bound of the file bytes delivered as lines, counted
\* with their newlines, and no byte before the offset waits in the
\* assembly buffer.
C22_OffsetBoundsDelivered ==
  base # None =>
    /\ offset = base[1] + DeliveredLen(BytesRead)
    /\ buffer = <<>>

\* A step of start() called on a tailer that has opened its file before.
SecondStartStep == base # None /\ (StartAgain \/ StartStat \/ StartOpen)

\* C23: start() called again while the tailer is started is a no-op: none
\* of its steps changes the offset, the inode, the assembly buffer or the
\* handle, arms the poll timer, or emits a line.
C23_StartIdempotent ==
  [][SecondStartStep =>
       /\ UNCHANGED <<offset, inode, buffer, fd, emitted>>
       /\ timer' => timer]_vars

(***************************************************************************)
(*                    Claims on the SseHub: the queues                       *)
(***************************************************************************)

\* The size of the largest frame the hub writes: event or heartbeat.
LargestFrame ==
  Max(PktLen(HeartbeatPkt), PktLen(EventPkt(EventName("problems"), "r", 1)))

\* C24: whatever broadcasts, heartbeat ticks and drains have happened, the
\* pending bytes of every sink are at most the drop threshold less one
\* plus the size of the largest frame.
C24_PendingBounded ==
  \A s \in Sinks : pending[s] <= (DropThreshold - 1) + LargestFrame

\* An open sink whose queue is at the bound: the first event frame was
\* written to it and the second was dropped.
C24_Witness ==
  \E s \in Sinks :
    /\ pending[s] = (DropThreshold - 1) + LargestFrame
    /\ sinkState[s] = "open"
    /\ FrameIds(s) = <<1>>
    /\ Len(sent) = 2

=============================================================================
